---- MODULE Spec2Model ----
(***************************************************************************)
(* A model of nettigo_air_monitor.NettigoAirMonitor: the client's cached   *)
(* state, its public coroutines split at their await points, and the pure  *)
(* sensor parser _parse_sensor_data.                                       *)
(*                                                                         *)
(* Numbers.  A raw reading value is an integer number of hundredths        *)
(* (1234 is the JSON value "12.34").  A value of the parsed map is an      *)
(* integer number of thousandths, so that round(x, 1) and the division of  *)
(* a pressure by 100 are both exact.                                       *)
(***************************************************************************)
EXTENDS Integers, Sequences, FiniteSets, Bags, TLC

\* ------------------------------------------------------------------ bounds

\* longest list of raw readings given to the parser
MaxLen == 3

\* number of calls that may be in flight on one client at the same time
MaxCalls == 2

\* ------------------------------------------------- constants of const.py

\* const.RESPONSES_FROM_CACHE
RESPONSES_FROM_CACHE == 4

\* const.RENAME_KEY_MAP: (old key, new key) pairs, legacy name to canonical name
RENAME_KEY_MAP ==
    << <<"conc_co2_ppm", "mhz14a_carbon_dioxide">>,
       <<"sds_p1", "sds011_p1">>,
       <<"sds_p2", "sds011_p2">>,
       <<"temperature", "dht22_temperature">> >>

\* const.ATTR_UPTIME
ATTR_UPTIME == "uptime"

\* ------------------------------------------------------------ raw readings

\* the value_type strings a device sends, as sent (mixed case)
ValueTypes ==
    {"SDS_P1", "SDS_P2", "sds011_p1", "BME280_pressure", "conc_co2_ppm", "temperature"}

\* str.lower() on the value_type strings above
Lower(s) ==
    CASE s = "SDS_P1" -> "sds_p1"
      [] s = "SDS_P2" -> "sds_p2"
      [] s = "BME280_pressure" -> "bme280_pressure"
      [] OTHER -> s

\* the test  "pressure" in key  on the lower-cased keys
HasPressure(key) == key \in {"bme280_pressure"}

\* raw numeric values of the parser's inputs, in hundredths: 12.34, -5.37
RawNums == {1234, -537}

\* One element of sensordatavalues.
\*   shape "ok"            {"value_type": vt, "value": v}
\*   shape "no_value_type" the key value_type is missing
\*   shape "no_value"      the key value is missing
\*   shape "not_dict"      the element is a string, not an object
\*   shape "vt_not_str"    value_type is a number
\*   vk "num" a number or numeric string, "text" a non-numeric string, "null"
Reading(shape, vt, vk, n) == [shape |-> shape, vt |-> vt, vk |-> vk, n |-> n]

GoodReadings == {Reading("ok", vt, "num", n) : vt \in ValueTypes, n \in RawNums}

\* ----------------------------------------------------- _parse_sensor_data

\* round(float(v), 1) of v hundredths, in tenths (no value of the model is a tie)
Round1(n) == (n + 5) \div 10

\* the exception that evaluating
\*   item["value_type"].lower(): round(float(item["value"]), 1)
\* raises for one item, "none" if it raises nothing
ItemError(item) ==
    CASE item.shape = "not_dict" -> "TypeError"
      [] item.shape = "no_value_type" -> "KeyError"
      [] item.shape = "vt_not_str" -> "AttributeError"
      [] item.shape = "no_value" -> "KeyError"
      [] item.vk = "null" -> "TypeError"
      [] item.vk = "text" -> "ValueError"
      [] OTHER -> "none"

\* the parser's outcome: the exception raised ("none" if none) and the map
ParseOut(err, map) == [err |-> err, map |-> map]

EmptyMap == [k \in {} |-> 0]

\* d[key] = value of a Python dict
DictSet(d, key, value) ==
    [k \in DOMAIN d \cup {key} |-> IF k = key THEN value ELSE d[k]]

\* d.pop(key)
DictPop(d, key) == [k \in DOMAIN d \ {key} |-> d[k]]

\* the dict comprehension of lines 81-83 over readings[i..], started from acc:
\* a later reading of a key replaces an earlier one, the first exception ends it
RECURSIVE BuildFrom(_, _, _)
BuildFrom(readings, i, acc) ==
    IF i > Len(readings) THEN ParseOut("none", acc)
    ELSE IF ItemError(readings[i]) # "none"
    THEN ParseOut(ItemError(readings[i]), EmptyMap)
    ELSE BuildFrom(readings, i + 1,
                   DictSet(acc, Lower(readings[i].vt), Round1(readings[i].n) * 100))

BuildDict(readings) == BuildFrom(readings, 1, EmptyMap)

\* the loop of lines 85-87
PressureStep(res) ==
    [k \in DOMAIN res |->
        IF HasPressure(k) THEN res[k] \div 100 ELSE res[k]]

\* a rename that copies: result[new_key] = result[old_key], the old key stays
RenameOne_copy(res, i) ==
    LET old_key == RENAME_KEY_MAP[i][1]
        new_key == RENAME_KEY_MAP[i][2]
    IN  IF old_key \in DOMAIN res
        THEN DictSet(res, new_key, res[old_key])
        ELSE res

\* one turn of the loop of lines 89-91, for the pair RENAME_KEY_MAP[i]
RenameOne(res, i) ==
    LET old_key == RENAME_KEY_MAP[i][1]
        new_key == RENAME_KEY_MAP[i][2]
    IN  IF old_key \in DOMAIN res
        THEN DictSet(DictPop(res, old_key), new_key, res[old_key])
        ELSE res

RECURSIVE RenameFrom(_, _)
RenameFrom(res, i) ==
    IF i > Len(RENAME_KEY_MAP) THEN res
    ELSE RenameFrom(RenameOne(res, i), i + 1)

\* _parse_sensor_data(data) when data is a list
parse_sensor_data(readings) ==
    LET built == BuildDict(readings)
    IN  IF built.err # "none" THEN built
        ELSE ParseOut("none", RenameFrom(PressureStep(built.map), 1))

\* ------------------------------------------------------- payloads (JSON)

\* The JSON object served at the data endpoint.
\*   sv        the value of "software_version", "missing" if the key is absent
\*   sdv_kind  "list" if "sensordatavalues" is a list, "null" if it is null,
\*             "missing" if the key is absent
\*   uptime    the value of "uptime" (a string of digits), "missing" if absent
Payload(sv, sdv_kind, sdv, uptime) ==
    [sv |-> sv, sdv_kind |-> sdv_kind, sdv |-> sdv, uptime |-> uptime]

\* the JSON object {}
EmptyPayload == Payload("missing", "missing", << >>, "missing")

PayloadA ==
    Payload("v1", "list",
            << Reading("ok", "SDS_P1", "num", 4008),
               Reading("ok", "SDS_P2", "num", 1234),
               Reading("ok", "BME280_pressure", "num", 10132500) >>,
            "456")

PayloadB ==
    Payload("v2", "list",
            << Reading("ok", "temperature", "num", -537),
               Reading("ok", "conc_co2_ppm", "num", 1234) >>,
            "missing")

PayloadNoVersion ==
    Payload("missing", "list", << Reading("ok", "SDS_P1", "num", 4008) >>, "missing")

PayloadNoValues == Payload("v2", "missing", << >>, "456")

PayloadTextValue ==
    Payload("v1", "list", << Reading("ok", "SDS_P1", "text", 0) >>, "missing")

Payloads ==
    { EmptyPayload, PayloadA, PayloadB, PayloadNoVersion, PayloadNoValues,
      PayloadTextValue }

\* bool(data) of a dict: it has a key
Truthy(d) == d # EmptyPayload

\* int(s) on the uptime strings of the payloads
IntOf(s) == CASE s = "456" -> 456 [] OTHER -> 0

\* The JSON object served at the config endpoint.
\*   has_auth  the key "www_basicauth_enabled" is present, auth is its value
\*   sv        the value of "SOFTWARE_VERSION", "missing" if the key is absent
Config(has_auth, auth, sv) == [has_auth |-> has_auth, auth |-> auth, sv |-> sv]

NoConfig == Config(FALSE, FALSE, "missing")

Configs ==
    { Config(TRUE, FALSE, "v1"), Config(TRUE, TRUE, "v2"),
      Config(TRUE, FALSE, "missing"), NoConfig }

\* the text served at the values endpoint, and re.search(MAC_PATTERN, text):
\* the matched address, "none" if there is no match
Texts == {"<td>AA:BB:CC:DD:EE:FF</td>", "<td></td>"}

MacSearch(text) ==
    IF text = "<td>AA:BB:CC:DD:EE:FF</td>" THEN "AA:BB:CC:DD:EE:FF" ELSE "none"

\* what reading the body of a response gives: a value, or the exception of a
\* body that is not what was asked for (aiohttp.ContentTypeError)
BodyErrors == {"ContentTypeError"}

\* -------------------------------------------------- _async_http_request

\* What session.request(..., raise_for_status=True) does: it returns a
\* response with a 2xx status (exc "none"), or raises exc; a
\* ClientResponseError carries the status.
Outcome(exc, status) == [exc |-> exc, status |-> status]

RequestOutcomes ==
    { Outcome("none", 200), Outcome("none", 204),
      Outcome("ClientResponseError", 401), Outcome("ClientResponseError", 500),
      Outcome("ClientConnectorError", 0), Outcome("TimeoutError", 0),
      Outcome("ServerDisconnectedError", 0) }

\* the result of _async_http_request: the response (exc "none") or the
\* exception it raises, with the status its message carries
HttpResult(exc, status) == [exc |-> exc, status |-> status]

async_http_request(outcome) ==
    CASE outcome.exc = "ClientResponseError" ->
            IF outcome.status = 401
            THEN HttpResult("AuthFailedError", 401)
            ELSE HttpResult("ApiError", outcome.status)
      [] outcome.exc \in {"ClientConnectorError", "TimeoutError"} ->
            HttpResult("NotRespondingError", 0)
      [] outcome.exc = "none" ->
            IF outcome.status # 200
            THEN HttpResult("ApiError", outcome.status)
            ELSE HttpResult("none", 200)
      [] OTHER -> HttpResult(outcome.exc, outcome.status)

\* except NotRespondingError as error: raise ApiError(error.status) from error
NotRespondingToApiError(r) ==
    IF r.exc = "NotRespondingError" THEN HttpResult("ApiError", r.status) ELSE r

\* ------------------------------------------------------------------ state

VARIABLES
    last_data,          \* self._last_data: the payload kept, EmptyPayload for {}
    update_errors,      \* self._update_errors
    software_version,   \* self._software_version, "unset" while the attribute is not set
    auth_enabled,       \* self._auth_enabled
    running,            \* the calls in flight: the bag of the awaits they are
                        \*   suspended at (see At)
    last,               \* what the caller saw of the call that ended last (see Ret)
    streak,             \* history: async_update calls whose request ended
                        \*   NotResponding since the last successful fetch, counted up
                        \*   to StreakCap; -1 until the first successful fetch
    data,               \* the parser's argument
    result,             \* the parser's dict, as built so far
    step                \* the parser's position: 0 before the comprehension, 1 after it,
                        \*   2 after the pressure loop, 2 + i after i turns of the rename
                        \*   loop, -1 after an exception

client_vars == <<last_data, update_errors, software_version, auth_enabled>>
parser_vars == <<data, result, step>>
vars == <<last_data, update_errors, software_version, auth_enabled,
          running, last, streak, data, result, step>>

Ops ==
    { "async_update", "initialize", "async_check_credentials",
      "async_get_mac_address", "async_restart", "async_ota_update" }

\* An await of a coroutine: "request" is session.request inside
\* _async_http_request (line 99), "body" is resp.json() or resp.text()
\* (lines 141, 177, 193).
At(o, await) == <<o, await>>

Awaits == Ops \X {"request", "body"}

\* the number of calls in flight, and of those suspended at await a
InFlight == BagCardinality(running)

Suspended(a) == CopiesIn(a, running)

\* the streak is counted exactly up to RESPONSES_FROM_CACHE + 1; StreakCap stands
\* for every longer one
StreakCap == RESPONSES_FROM_CACHE + 2

\* How a call ended.
\*   request  what _async_http_request gave the call: "none" for a response,
\*            else the exception it raised; "" if the call was cancelled in it
\*   exc      the exception the caller sees, "none" if the call returned
\*   status   the status the exception's message carries (0: the text of the
\*            not-responding error)
\*   via      async_update: "fetch" if data came from the response, "cache" if it
\*            came from self._last_data, "" if the call ended before it had data
\*   sensors  async_update: the dict the result is built from
\*   config   async_check_credentials: the object returned
\*   mac      async_get_mac_address: the address returned
Ret(request, exc, status) ==
    [request |-> request, exc |-> exc, status |-> status, via |-> "",
     sensors |-> EmptyMap, config |-> NoConfig, mac |-> "none"]

NoCall == Ret("", "none", 0)

\* -------------------------------------------------- async_update, the tail

\* Lines 144-152: what async_update does with data once it has it.  Lines
\* 154-164 (the index computed by aqipy and the projection onto NAMSensors by
\* dacite, both outside the module) only read the dict of line 152.
\*   exc          the exception raised, "none" if none
\*   version      the value assigned to self._software_version, "unset" if the
\*                assignment of line 144 is not reached
\*   sensors      the dict after line 152
TailOut(exc, version, sensors) == [exc |-> exc, version |-> version, sensors |-> sensors]

UpdateTail(d) ==
    IF d.sv = "missing" THEN TailOut("KeyError", "unset", EmptyMap)
    ELSE IF d.sdv_kind = "missing" THEN TailOut("InvalidSensorDataError", d.sv, EmptyMap)
    ELSE IF d.sdv_kind = "null" THEN TailOut("InvalidSensorDataError", d.sv, EmptyMap)
    ELSE LET parsed == parse_sensor_data(d.sdv)
         IN  IF parsed.err \in {"TypeError", "KeyError"}
             THEN TailOut("InvalidSensorDataError", d.sv, EmptyMap)
             ELSE IF parsed.err # "none" THEN TailOut(parsed.err, d.sv, EmptyMap)
             ELSE IF d.uptime # "missing"
             THEN TailOut("none", d.sv, DictSet(parsed.map, ATTR_UPTIME, IntOf(d.uptime)))
             ELSE TailOut("none", d.sv, parsed.map)

\* ---------------------------------------------------------------- actions

\* __init__ (lines 42-50); the parser is not running
Init ==
    /\ last_data = EmptyPayload
    /\ update_errors = 0
    /\ software_version = "unset"
    /\ auth_enabled = FALSE
    /\ running = EmptyBag
    /\ last = NoCall
    /\ streak = -1
    /\ data = << >>
    /\ result = EmptyMap
    /\ step = 0

\* a call suspended at await a ends: `last` tells how
Ends(a, ret) ==
    /\ running' = running (-) SetToBag({a})
    /\ last' = ret

\* a call of o that got its response goes on to read the body
ReadsBody(o) ==
    /\ running' = (running (-) SetToBag({At(o, "request")}))
                        (+) SetToBag({At(o, "body")})
    /\ UNCHANGED last

\* the caller calls coroutine o, which runs up to session.request
Call(o) ==
    /\ InFlight < MaxCalls
    /\ running' = running (+) SetToBag({At(o, "request")})
    /\ UNCHANGED <<client_vars, last, streak, parser_vars>>

\* the caller cancels a call at the await it is suspended at: CancelledError is
\* raised there, no except clause of the module catches it
Cancel(a) ==
    /\ Suspended(a) > 0
    /\ Ends(a, Ret(IF a[2] = "body" THEN "none" ELSE "", "CancelledError", 0))
    /\ UNCHANGED <<client_vars, streak, parser_vars>>

\* reading the body raises: resp.json() and resp.text() are outside every try
BodyFails(o, e) ==
    /\ Suspended(At(o, "body")) > 0
    /\ Ends(At(o, "body"), Ret("none", e, 0))
    /\ UNCHANGED <<client_vars, streak, parser_vars>>

\* the fallback taken whatever self._last_data holds
UseCache_any_data == update_errors <= RESPONSES_FROM_CACHE

\* the fallback with the comparison the constant's name suggests
UseCache_strict == update_errors < RESPONSES_FROM_CACHE /\ Truthy(last_data)

\* the fallback with no limit on the failures
UseCache_unlimited == Truthy(last_data)

\* line 131: the condition of the stale-data fallback
UseCache == update_errors <= RESPONSES_FROM_CACHE /\ Truthy(last_data)

\* line 144 on the attribute: assigned unless data["software_version"] raised
VersionAfter(tail) ==
    IF tail.version = "unset" THEN software_version ELSE tail.version

\* lines 144-166 for data d that came by way `via`, in a call suspended at a
UpdateEnds(a, d, via) ==
    LET tail == UpdateTail(d)
    IN  /\ software_version' = VersionAfter(tail)
        /\ Ends(a, [Ret(IF via = "cache" THEN "NotRespondingError" ELSE "none",
                         tail.exc, 0) EXCEPT
                        !.via = via, !.sensors = tail.sensors])

\* the fallback without line 137
UpdateFromCache_uncounted ==
    /\ UNCHANGED <<last_data, update_errors, auth_enabled>>
    /\ UpdateEnds(At("async_update", "request"), last_data, "cache")

\* lines 130-137: the request did not respond and the cache is used
UpdateFromCache ==
    /\ update_errors' = update_errors + 1
    /\ UNCHANGED <<last_data, auth_enabled>>
    /\ UpdateEnds(At("async_update", "request"), last_data, "cache")

\* lines 138-139
UpdateNoCache ==
    /\ Ends(At("async_update", "request"),
            Ret("NotRespondingError", "ApiError", 0))
    /\ UNCHANGED client_vars

\* the counter reset as soon as the response is there, before resp.json()
UpdateResponded_resets ==
    /\ ReadsBody("async_update")
    /\ update_errors' = 0
    /\ UNCHANGED <<last_data, software_version, auth_enabled>>

\* line 129 returned a response: async_update is suspended in resp.json()
UpdateResponded ==
    /\ ReadsBody("async_update")
    /\ UNCHANGED client_vars

\* async_update, from session.request to the next await or the end (lines 128-139)
async_update_request(outcome) ==
    /\ Suspended(At("async_update", "request")) > 0
    /\ LET r == async_http_request(outcome)
       IN  CASE r.exc = "none" ->
                    UpdateResponded /\ UNCHANGED streak
             [] r.exc = "NotRespondingError" ->
                    /\ IF UseCache THEN UpdateFromCache ELSE UpdateNoCache
                    /\ streak' = IF streak >= 0 /\ streak < StreakCap
                                 THEN streak + 1 ELSE streak
             [] OTHER ->
                    /\ Ends(At("async_update", "request"), Ret(r.exc, r.exc, r.status))
                    /\ UNCHANGED <<client_vars, streak>>
    /\ UNCHANGED parser_vars

\* a payload kept only if async_update can return its sensors
UpdateStore_if_good(p) ==
    /\ last_data' = IF UpdateTail(p).exc = "none" THEN p ELSE last_data
    /\ update_errors' = 0
    /\ UNCHANGED auth_enabled

\* lines 141-142: the payload read is kept and the counter reset
UpdateStore(p) ==
    /\ last_data' = p
    /\ update_errors' = 0
    /\ UNCHANGED auth_enabled

\* async_update, from resp.json() to the end (lines 141-166)
async_update_body(p) ==
    /\ Suspended(At("async_update", "body")) > 0
    /\ UpdateStore(p)
    /\ UpdateEnds(At("async_update", "body"), p, "fetch")
    /\ streak' = 0
    /\ UNCHANGED parser_vars

\* a refused config request that also sets the version, to ""
InitializeAuthFailed_sets_version ==
    /\ auth_enabled' = TRUE
    /\ software_version' = ""
    /\ UNCHANGED <<last_data, update_errors>>

\* lines 67-68: the config request was refused
InitializeAuthFailed ==
    /\ auth_enabled' = TRUE
    /\ UNCHANGED <<last_data, update_errors, software_version>>

\* lines 70-71
InitializeFromConfig(c) ==
    /\ auth_enabled' = c.auth
    /\ software_version' = IF c.sv = "missing" THEN "" ELSE c.sv
    /\ UNCHANGED <<last_data, update_errors>>

\* initialize, suspended in async_check_credentials' request (lines 65-68, 188-191)
initialize_request(outcome) ==
    /\ Suspended(At("initialize", "request")) > 0
    /\ LET q == async_http_request(outcome)
           r == NotRespondingToApiError(q)
       IN  CASE r.exc = "none" ->
                    ReadsBody("initialize") /\ UNCHANGED client_vars
             [] r.exc = "AuthFailedError" ->
                    /\ InitializeAuthFailed
                    /\ Ends(At("initialize", "request"), Ret("AuthFailedError", "none", 0))
             [] OTHER ->
                    /\ Ends(At("initialize", "request"), Ret(q.exc, r.exc, r.status))
                    /\ UNCHANGED client_vars
    /\ UNCHANGED <<streak, parser_vars>>

\* initialize, from resp.json() to the end (lines 193, 69-71)
initialize_body(c) ==
    /\ Suspended(At("initialize", "body")) > 0
    /\ IF c.has_auth
       THEN /\ InitializeFromConfig(c)
            /\ Ends(At("initialize", "body"), Ret("none", "none", 0))
       ELSE /\ Ends(At("initialize", "body"), Ret("none", "KeyError", 0))
            /\ UNCHANGED client_vars
    /\ UNCHANGED <<streak, parser_vars>>

\* async_check_credentials called by the user (lines 184-193)
async_check_credentials_request(outcome) ==
    /\ Suspended(At("async_check_credentials", "request")) > 0
    /\ LET q == async_http_request(outcome)
           r == NotRespondingToApiError(q)
       IN  IF r.exc = "none"
           THEN ReadsBody("async_check_credentials")
           ELSE Ends(At("async_check_credentials", "request"),
                     Ret(q.exc, r.exc, r.status))
    /\ UNCHANGED <<client_vars, streak, parser_vars>>

async_check_credentials_body(c) ==
    /\ Suspended(At("async_check_credentials", "body")) > 0
    /\ Ends(At("async_check_credentials", "body"),
            [Ret("none", "none", 0) EXCEPT !.config = c])
    /\ UNCHANGED <<client_vars, streak, parser_vars>>

\* async_get_mac_address (lines 168-182)
async_get_mac_address_request(outcome) ==
    /\ Suspended(At("async_get_mac_address", "request")) > 0
    /\ LET q == async_http_request(outcome)
           r == NotRespondingToApiError(q)
       IN  IF r.exc = "none"
           THEN ReadsBody("async_get_mac_address")
           ELSE Ends(At("async_get_mac_address", "request"),
                     Ret(q.exc, r.exc, r.status))
    /\ UNCHANGED <<client_vars, streak, parser_vars>>

async_get_mac_address_body(text) ==
    /\ Suspended(At("async_get_mac_address", "body")) > 0
    /\ IF MacSearch(text) = "none"
       THEN Ends(At("async_get_mac_address", "body"), Ret("none", "CannotGetMacError", 0))
       ELSE Ends(At("async_get_mac_address", "body"),
                 [Ret("none", "none", 0) EXCEPT !.mac = MacSearch(text)])
    /\ UNCHANGED <<client_vars, streak, parser_vars>>

\* async_restart (lines 205-212)
async_restart(outcome) ==
    /\ Suspended(At("async_restart", "request")) > 0
    /\ LET q == async_http_request(outcome)
           r == NotRespondingToApiError(q)
       IN  Ends(At("async_restart", "request"), Ret(q.exc, r.exc, r.status))
    /\ UNCHANGED <<client_vars, streak, parser_vars>>

\* async_ota_update (lines 214-221)
async_ota_update(outcome) ==
    /\ Suspended(At("async_ota_update", "request")) > 0
    /\ LET q == async_http_request(outcome)
           r == NotRespondingToApiError(q)
       IN  Ends(At("async_ota_update", "request"), Ret(q.exc, r.exc, r.status))
    /\ UNCHANGED <<client_vars, streak, parser_vars>>

\* the coroutines that read a body
BodyOps ==
    {"async_update", "initialize", "async_check_credentials", "async_get_mac_address"}

Next ==
    \/ \E o \in Ops : Call(o)
    \/ \E a \in Awaits : Cancel(a)
    \/ \E o \in BodyOps, e \in BodyErrors : BodyFails(o, e)
    \/ \E outcome \in RequestOutcomes : async_update_request(outcome)
    \/ \E p \in Payloads : async_update_body(p)
    \/ \E outcome \in RequestOutcomes : initialize_request(outcome)
    \/ \E c \in Configs : initialize_body(c)
    \/ \E outcome \in RequestOutcomes : async_check_credentials_request(outcome)
    \/ \E c \in Configs : async_check_credentials_body(c)
    \/ \E outcome \in RequestOutcomes : async_get_mac_address_request(outcome)
    \/ \E text \in Texts : async_get_mac_address_body(text)
    \/ \E outcome \in RequestOutcomes : async_restart(outcome)
    \/ \E outcome \in RequestOutcomes : async_ota_update(outcome)

\* one client and the calls in flight on it
Spec == Init /\ [][Next]_vars

\* ---------------------------------------- _parse_sensor_data, step by step

ParserReadings ==
    GoodReadings \cup
    { Reading("no_value", "SDS_P1", "num", 0),
      Reading("vt_not_str", "SDS_P1", "num", 1234),
      Reading("ok", "SDS_P1", "text", 0),
      Reading("ok", "SDS_P1", "null", 0) }

\* every list of at most MaxLen readings
ParserInputs ==
    UNION { [1 .. n -> ParserReadings] : n \in 0 .. MaxLen }

\* the client as constructed, and the parser called with any input
InitParser ==
    /\ last_data = EmptyPayload
    /\ update_errors = 0
    /\ software_version = "unset"
    /\ auth_enabled = FALSE
    /\ running = EmptyBag
    /\ last = NoCall
    /\ streak = -1
    /\ data \in ParserInputs
    /\ result = EmptyMap
    /\ step = 0

\* lines 81-83
ParserBuild ==
    /\ step = 0
    /\ LET built == BuildDict(data)
       IN  /\ result' = built.map
           /\ step' = IF built.err = "none" THEN 1 ELSE -1
    /\ UNCHANGED <<data, client_vars, running, last, streak>>

\* lines 85-87
ParserPressure ==
    /\ step = 1
    /\ result' = PressureStep(result)
    /\ step' = 2
    /\ UNCHANGED <<data, client_vars, running, last, streak>>

\* lines 89-91, one pair of the table at a time
ParserRename ==
    /\ step >= 2 /\ step - 2 < Len(RENAME_KEY_MAP)
    /\ result' = RenameOne(result, step - 1)
    /\ step' = step + 1
    /\ UNCHANGED <<data, client_vars, running, last, streak>>

NextParser == ParserBuild \/ ParserPressure \/ ParserRename

SpecParser == InitParser /\ [][NextParser]_vars

\* line 93 is reached
ParserDone == step = 2 + Len(RENAME_KEY_MAP)

\* ------------------------------------------------------- steps of a call

\* in this step a call suspended at await a ends (returns, raises or is cancelled)
EndsAt(a) ==
    /\ CopiesIn(a, running') = CopiesIn(a, running) - 1
    /\ a[2] = "request"
       => CopiesIn(At(a[1], "body"), running') = CopiesIn(At(a[1], "body"), running)

\* in this step an async_update call ends because its request did not respond
UpdateNotResponding ==
    /\ EndsAt(At("async_update", "request"))
    /\ last'.request = "NotRespondingError"

\* in this step an async_update call ends that fetched a payload
UpdateFetched ==
    /\ EndsAt(At("async_update", "body"))
    /\ last'.via = "fetch"

\* ------------------------------------------------------------------ C1

\* C1 as claimed: a call whose request does not respond while a non-empty
\* payload is cached and the failure counter is at most RESPONSES_FROM_CACHE
\* returns the sensors parsed from the cached payload, leaves the cache as it
\* is and adds 1 to the counter; a call whose fetch succeeds caches the new
\* payload and sets the counter to 0.
C1_Original ==
    [][ /\ (UpdateNotResponding /\ Truthy(last_data)
              /\ update_errors <= RESPONSES_FROM_CACHE)
           => /\ last'.exc = "none"
              /\ last'.sensors = UpdateTail(last_data).sensors
              /\ last_data' = last_data
              /\ update_errors' = update_errors + 1
        /\ UpdateFetched
           => /\ update_errors' = 0
              /\ last'.sensors = UpdateTail(last_data').sensors ]_vars

\* C1 as the code has it: such a call ends as the tail of async_update ends on
\* the cached payload (its sensors if the payload has the expected shape, the
\* tail's exception if not), leaves the cache as it is and adds 1 to the
\* counter; a call whose fetch succeeds caches the new payload and sets the
\* counter to 0.
C1_FallbackThenReset ==
    [][ /\ (UpdateNotResponding /\ Truthy(last_data)
              /\ update_errors <= RESPONSES_FROM_CACHE)
           => /\ last'.via = "cache"
              /\ last'.exc = UpdateTail(last_data).exc
              /\ last'.sensors = UpdateTail(last_data).sensors
              /\ last_data' = last_data
              /\ update_errors' = update_errors + 1
        /\ UpdateFetched
           => /\ update_errors' = 0
              /\ last'.exc = UpdateTail(last_data').exc
              /\ last'.sensors = UpdateTail(last_data').sensors ]_vars

\* the third call in a row answered from the cache, with the sensors of PayloadA
C1_Witness ==
    /\ last.via = "cache" /\ last.exc = "none"
    /\ last_data = PayloadA /\ last.sensors = UpdateTail(PayloadA).sensors
    /\ update_errors = 3 /\ streak = 3

\* ------------------------------------------------------------------ C2

\* C2: an async_update call whose request does not respond while
\* self._last_data is empty (nothing fetched yet, or {} fetched last) raises
\* ApiError, and leaves the cache and the failure counter as they are.
C2_NoCacheApiError ==
    [][ (UpdateNotResponding /\ ~Truthy(last_data))
        => /\ last'.exc = "ApiError"
           /\ last'.via = ""
           /\ UNCHANGED <<last_data, update_errors>> ]_vars

\* an async_update call did not respond after {} was fetched, and ApiError
\* was raised
C2_Witness ==
    /\ ~Truthy(last_data) /\ streak = 1 /\ update_errors = 0
    /\ last.request = "NotRespondingError" /\ last.exc = "ApiError"

\* ------------------------------------------------------------------ C3

\* C3 as claimed: of the calls in a row whose request does not respond after
\* a successful fetch, the first RESPONSES_FROM_CACHE + 1 are answered from
\* the cache, every later one raises ApiError.
C3_Original ==
    [][ (UpdateNotResponding /\ streak >= 0)
        => IF streak <= RESPONSES_FROM_CACHE
           THEN last'.via = "cache"
           ELSE last'.via = "" /\ last'.exc = "ApiError" ]_vars

\* C3 as the code has it: the same, after a successful fetch of a payload
\* that is not {}; the counter is the length of the run, up to
\* RESPONSES_FROM_CACHE + 1.
C3_CacheRun ==
    [][ /\ (UpdateNotResponding /\ streak >= 0 /\ Truthy(last_data))
           => IF streak <= RESPONSES_FROM_CACHE
              THEN last'.via = "cache"
              ELSE last'.via = "" /\ last'.exc = "ApiError"
        /\ Truthy(last_data')
           => update_errors' = IF streak' <= RESPONSES_FROM_CACHE
                               THEN streak' ELSE RESPONSES_FROM_CACHE + 1 ]_vars

\* after RESPONSES_FROM_CACHE + 1 answers from the cache, the next call
\* raised ApiError
C3_Witness ==
    /\ Truthy(last_data) /\ streak = RESPONSES_FROM_CACHE + 2
    /\ update_errors = RESPONSES_FROM_CACHE + 1
    /\ last.request = "NotRespondingError" /\ last.exc = "ApiError" /\ last.via = ""

\* ------------------------------------------------------------------ C4

\* the exceptions of aiohttp and asyncio, and the one the module keeps inside
RawErrors ==
    { "ClientResponseError", "ClientConnectorError", "TimeoutError",
      "ServerDisconnectedError", "ContentTypeError", "NotRespondingError" }

\* what the caller sees for each result of _async_http_request: 401 as
\* AuthFailedError (initialize takes it as an answer), another bad status as
\* ApiError with the status, no response as ApiError or as the cached data
C4_Mapping ==
    /\ last.request = "AuthFailedError"
       => last.exc = "AuthFailedError" \/ (last.exc = "none" /\ auth_enabled)
    /\ last.request = "ApiError"
       => last.exc = "ApiError" /\ last.status \in {204, 500}
    /\ last.request = "NotRespondingError"
       => (last.exc = "ApiError" /\ last.status = 0) \/ last.via = "cache"

\* C4: the result of the one request decides the error the caller sees, as
\* in C4_Mapping, and no call ends with NotRespondingError or with an
\* exception of the transport.
C4_NoRawError == C4_Mapping /\ last.exc \notin RawErrors

\* ------------------------------------------------------------------ C5

\* C5: an initialize call whose config request is refused (401) sets
\* auth_enabled, leaves the software version as it is and raises nothing; one
\* that reads a config sets both fields from it; one that ends in any other
\* way changes neither field.
C5_Initialize ==
    [][ /\ (EndsAt(At("initialize", "request")) /\ last'.request = "AuthFailedError")
           => /\ last'.exc = "none"
              /\ auth_enabled' = TRUE
              /\ software_version' = software_version
        /\ (EndsAt(At("initialize", "body")) /\ last'.exc = "none")
           => \E c \in Configs :
                /\ c.has_auth
                /\ auth_enabled' = c.auth
                /\ software_version' = IF c.sv = "missing" THEN "" ELSE c.sv
        /\ ((EndsAt(At("initialize", "request")) \/ EndsAt(At("initialize", "body")))
              /\ last'.exc # "none")
           => UNCHANGED <<auth_enabled, software_version>> ]_vars

\* initialize on a new client was refused: auth_enabled is set, the version is not
C5_Witness ==
    /\ last.request = "AuthFailedError" /\ last.exc = "none"
    /\ auth_enabled = TRUE /\ software_version = "unset"

\* ------------------------------------------------------------------ C6

\* C6: an async_update call that had data to work on returns its sensors or
\* raises InvalidSensorDataError, nothing else.
C6_OnlyInvalidSensorData ==
    last.via \in {"fetch", "cache"} => last.exc \in {"none", "InvalidSensorDataError"}

\* ------------------------------------------------------------------ C7

\* C7: a step in which a call is cancelled, and every step of a call before
\* its last one, leaves self._last_data, self._update_errors,
\* self._software_version and self._auth_enabled as they are.
C7_CancelChangesNothing ==
    [][ (InFlight' >= InFlight \/ last'.exc = "CancelledError")
        => UNCHANGED client_vars ]_vars

\* a call was cancelled while the body of its response was read, on a client
\* with a cached payload, counted failures and a version
C7_Witness ==
    /\ last.exc = "CancelledError" /\ last.request = "none"
    /\ Truthy(last_data) /\ update_errors > 0 /\ software_version # "unset"

\* ------------------------------------------------------------------ C8

\* the readings of `data` whose lower-cased value_type is key
ReadingsOf(key) == {j \in 1 .. Len(data) : Lower(data[j].vt) = key}

\* the value the parser holds for key before the rename loop: that of the last
\* reading of the key, rounded to one decimal, a pressure divided by 100
ValueOf(key) ==
    LET j == CHOOSE x \in ReadingsOf(key) : \A y \in ReadingsOf(key) : y <= x
        rounded == Round1(data[j].n) * 100
    IN  IF HasPressure(key) THEN rounded \div 100 ELSE rounded

\* C8: when _parse_sensor_data returns, for every (old key, new key) of the
\* rename table: if the readings had the old key, the result does not have
\* it and holds the old key's value under the new key; if they had not, the
\* result has the new key exactly when the readings had it, with its own
\* value.
C8_RenameMoves ==
    ParserDone =>
        \A i \in 1 .. Len(RENAME_KEY_MAP) :
            LET old_key == RENAME_KEY_MAP[i][1]
                new_key == RENAME_KEY_MAP[i][2]
            IN  IF ReadingsOf(old_key) # {}
                THEN /\ old_key \notin DOMAIN result
                     /\ new_key \in DOMAIN result
                     /\ result[new_key] = ValueOf(old_key)
                ELSE /\ new_key \in DOMAIN result <=> ReadingsOf(new_key) # {}
                     /\ new_key \in DOMAIN result => result[new_key] = ValueOf(new_key)

\* the parser returned for readings that have an old key and, with another
\* value, its new key: the old key's value is the one kept
C8_Witness ==
    /\ ParserDone
    /\ ReadingsOf("sds_p1") # {} /\ ReadingsOf("sds011_p1") # {}
    /\ ValueOf("sds_p1") # ValueOf("sds011_p1")
    /\ result["sds011_p1"] = ValueOf("sds_p1")
    /\ "sds_p1" \notin DOMAIN result

\* ------------------------------------------------------------------ C9

\* C9 as claimed: the payload cached is one async_update returned sensors
\* for, and a call answered from the cache returns sensors.
C9_Original ==
    /\ Truthy(last_data) => UpdateTail(last_data).exc = "none"
    /\ last.via = "cache" => last.exc = "none"

\* C9 as the code has it: the payload cached is the one fetched last, kept
\* before it is parsed and whatever parsing it gives; the call that fetched it
\* and every call answered from it end as the tail of async_update ends on it.
C9_CacheIsLastFetched ==
    last.via \in {"fetch", "cache"}
        => /\ last.exc = UpdateTail(last_data).exc
           /\ last.sensors = UpdateTail(last_data).sensors

\* a call answered from a cached payload without sensordatavalues
C9_Witness ==
    /\ last.via = "cache" /\ last.exc = "InvalidSensorDataError"
    /\ last_data = PayloadNoValues

\* ----------------------------------------------------------------- C10

\* C10: with calls overlapping, the failure counter stays within
\* 0 .. RESPONSES_FROM_CACHE + 1 and is 0 while self._last_data is empty, and
\* what an async_update call returns is built from one payload: the cache as
\* it was when its request failed, or the payload it fetched.
C10_Overlapping ==
    /\ update_errors = 0
    /\ [][ /\ update_errors' \in 0 .. RESPONSES_FROM_CACHE + 1
           /\ update_errors' > 0 => Truthy(last_data')
           /\ (EndsAt(At("async_update", "request")) /\ last'.via = "cache")
              => last'.sensors = UpdateTail(last_data).sensors
           /\ UpdateFetched
              => last'.sensors = UpdateTail(last_data').sensors ]_vars

\* two async_update calls in flight, one at each await, with the counter at
\* its largest
C10_Witness ==
    /\ Suspended(At("async_update", "request")) > 0
    /\ Suspended(At("async_update", "body")) > 0
    /\ update_errors = RESPONSES_FROM_CACHE + 1

====
